---- MODULE Spec2Model ----
(***************************************************************************)
(* Model of ssl-cert.py: the run (main, load_ca_root, search,              *)
(* extract_x509_info, verify_chain_of_trust), the grader grade_ssl, and    *)
(* the subjectAltName extraction of extract_x509_info.                     *)
(*                                                                         *)
(* Three specifications share the variables:                               *)
(*   Spec       the run of the script (__main__)                           *)
(*   SpecGrade  grade_ssl applied to bounded certinfo records              *)
(*   SpecSan    the subjectAltName loop applied to bounded extension lists *)
(***************************************************************************)
EXTENDS Integers, Sequences, FiniteSets, TLC

VARIABLES
    \* ---- the run ----
    pc,          \* position of the script
    SHODAN_API,  \* whether os.getenv('SHODAN_API') is set
    bundle,      \* the file at certifi.where(): readable?, its PEM blocks
    results,     \* results['matches'] as returned by the query / the cache
    ROOT_STORE,  \* the module global, None until load_ca_root returns
    idx,         \* index of the service the for loop of search is at
    cert_list,   \* cert_list of search
    exc,         \* the exception that ended the run, if any
    calls,       \* history: one entry per verify_chain_of_trust call that returned
    \* ---- grade_ssl ----
    gpc,         \* position of grade_ssl
    cert,        \* the element of cert_list the for loop is at
    verified,    \* what verify_chain_of_trust returned for that element's chain
    warning,     \* local warning
    out,         \* lines printed during the current iteration
    ret,         \* value returned by grade_ssl
    gi,          \* number of elements graded so far
    \* ---- subjectAltName extraction ----
    spc,         \* position of the extraction
    exts,        \* the leaf certificate's ordered extension list
    san          \* local san

runVars   == <<pc, SHODAN_API, bundle, results, ROOT_STORE, idx, cert_list, exc, calls>>
gradeVars == <<gpc, cert, verified, warning, out, ret, gi>>
sanVars   == <<spc, exts, san>>
vars      == <<runVars, gradeVars, sanVars>>

(***************************************************************************)
(* Bounds                                                                  *)
(***************************************************************************)
MaxRecords == 2   \* services in one result set
MaxChain   == 2   \* PEM texts in one service's chain
MaxCerts   == 2   \* elements of the cert_list handed to grade_ssl
MaxExt     == 3   \* extensions of one certificate

(***************************************************************************)
(* Strings.  Python's  a in s  on two strings, str.replace(old, '') and    *)
(* str.split(sep).                                                         *)
(***************************************************************************)
Contains(s, m) ==
    \E i \in 1..(Len(s) - Len(m) + 1) : SubSeq(s, i, i + Len(m) - 1) = m

RECURSIVE RemoveAll(_, _)
RemoveAll(s, m) ==
    IF Len(s) < Len(m) THEN s
    ELSE IF SubSeq(s, 1, Len(m)) = m
         THEN RemoveAll(SubSeq(s, Len(m) + 1, Len(s)), m)
         ELSE SubSeq(s, 1, 1) \o RemoveAll(SubSeq(s, 2, Len(s)), m)

\* index of the first occurrence of sep in s, 0 when there is none
FirstIndex(s, sep) ==
    LET hits == {i \in 1..(Len(s) - Len(sep) + 1) : SubSeq(s, i, i + Len(sep) - 1) = sep}
    IN  IF hits = {} THEN 0 ELSE CHOOSE i \in hits : \A j \in hits : i <= j

RECURSIVE Split(_, _)
Split(s, sep) ==
    LET k == FirstIndex(s, sep)
    IN  IF k = 0 THEN <<s>>
        ELSE <<SubSeq(s, 1, k - 1)>> \o Split(SubSeq(s, k + Len(sep), Len(s)), sep)

\* Python's  x in l  on a list: some element equals x
InList(x, l) == \E i \in 1..Len(l) : l[i] = x

RECURSIVE SeqsUpTo(_, _)
SeqsUpTo(S, n) ==
    IF n = 0 THEN {<<>>}
    ELSE LET shorter == SeqsUpTo(S, n - 1)
         IN  shorter \cup {Append(q, x) : q \in {r \in shorter : Len(r) = n - 1}, x \in S}

(***************************************************************************)
(* Certificates.  A PEM text is named by the certificate it encodes; "BAD" *)
(* is a PEM block crypto.load_certificate cannot parse.                    *)
(***************************************************************************)
Certs == {"R1", "I1", "L1", "X", "L2", "E1", "T1"}
PEMs  == Certs \cup {"BAD"}

\* crypto.load_certificate(crypto.FILETYPE_PEM, text) returns (TRUE) or raises crypto.Error
Parseable(text) == text \in Certs

\* subject of the certificate that signed c (R1 and X are self-signed)
Issuer(c) ==
    CASE c = "R1" -> "R1"
      [] c = "I1" -> "R1"
      [] c = "L1" -> "I1"
      [] c = "X"  -> "X"
      [] c = "L2" -> "X"
      [] c = "E1" -> "R1"
      [] c = "T1" -> "I1"

Expired(c) == c = "E1"   \* notAfter is before the verification instant
SigOK(c)   == c # "T1"   \* the signature verifies against the issuer's key

\* X509StoreContext(store, certificate).verify_certificate(): every certificate of
\* the store is trusted for path building; the path must end in a self-signed
\* certificate of the store (no partial chains); TRUE when it returns None.
RECURSIVE PathToRoot(_, _, _)
PathToRoot(store, c, depth) ==
    /\ ~Expired(c)
    /\ SigOK(c)
    /\ IF Issuer(c) = c
       THEN c \in store
       ELSE /\ depth > 0
            /\ Issuer(c) \in store
            /\ PathToRoot(store, Issuer(c), depth - 1)

Verify(store, c) == PathToRoot(store, c, Cardinality(Certs))

(***************************************************************************)
(* Extensions and subjectAltName extraction (extract_x509_info, 49-54)     *)
(***************************************************************************)
\* ext.__str__(): OpenSSL prints the entries as "type:value" joined by ", "
RECURSIVE JoinEntries(_)
JoinEntries(entries) ==
    IF entries = <<>> THEN ""
    ELSE LET e == Head(entries)
             first == e.type \o ":" \o e.value
         IN  IF Len(entries) = 1 THEN first
             ELSE first \o ", " \o JoinEntries(Tail(entries))

ExtStr(ext) == JoinEntries(ext.entries)

\* str(ext.get_short_name()): the short name is bytes, str() gives "b'...'"
ShortNameStr(ext) == "b'" \o ext.short_name \o "'"

IsSanExt(ext) == Contains(ShortNameStr(ext), "subjectAltName")

\* the value assigned to san at line 54
SanValue(ext) == Split(RemoveAll(RemoveAll(ExtStr(ext), "DNS"), ":"), ", ")

\* variant of SanLoop that stops at the first subjectAltName extension
RECURSIVE SanLoopFirstWins(_, _, _)
SanLoopFirstWins(xs, i, s) ==
    IF i > Len(xs) THEN s
    ELSE IF IsSanExt(xs[i]) THEN SanValue(xs[i])
         ELSE SanLoopFirstWins(xs, i + 1, s)

\* the for loop of lines 51-54, from extension i on, san being s
RECURSIVE SanLoop(_, _, _)
SanLoop(xs, i, s) ==
    IF i > Len(xs) THEN s
    ELSE SanLoop(xs, i + 1, IF IsSanExt(xs[i]) THEN SanValue(xs[i]) ELSE s)

ExtractSan(xs) == SanLoop(xs, 1, "")

DnsEntry(v)   == [type |-> "DNS", value |-> v]
SanExt(names) == [short_name |-> "subjectAltName", entries |-> names]
BasicConstraints == [short_name |-> "basicConstraints",
                     entries |-> <<[type |-> "CA", value |-> "FALSE"]>>]
AuthorityInfoAccess == [short_name |-> "authorityInfoAccess",
                        entries |-> <<[type |-> "OCSP - URI", value |-> "http://ocsp.r1"]>>]

\* x509cert.get_extension(i), i in 0..get_extension_count()-1, of each certificate
Extensions(c) ==
    CASE c = "L1" -> <<BasicConstraints, SanExt(<<DnsEntry("a.com"), DnsEntry("www.a.com")>>)>>
      [] c = "L2" -> <<SanExt(<<DnsEntry("b.org")>>)>>
      [] c = "T1" -> <<AuthorityInfoAccess>>
      [] OTHER    -> <<>>

(***************************************************************************)
(* The run                                                                 *)
(***************************************************************************)
None == [kind |-> "None"]
X509Store(certs) == [kind |-> "X509Store", certs |-> certs]

NoExc == [type |-> "None", func |-> "", line |-> 0]
Raised(type, func, line) == [type |-> type, func |-> func, line |-> line]

\* the trust-anchor file: unreadable, or readable with these PEM blocks
Bundles ==
    {[readable |-> FALSE, pems |-> <<>>]}
    \cup {[readable |-> TRUE, pems |-> p] : p \in {<<>>, <<"R1">>, <<"R1", "BAD">>}}

\* one element of results['matches']: complete = every key read at lines 193-204
\* is present; chain = service['ssl']['chain']
Services ==
    {[complete |-> FALSE, chain |-> <<>>]}
    \cup {[complete |-> TRUE, chain |-> c] : c \in SeqsUpTo(PEMs, MaxChain)}

ResultSets == SeqsUpTo(Services, MaxRecords)

\* the for loop of lines 33-35 over the PEM blocks: the store built, or the
\* crypto.Error of the first block that does not parse
RECURSIVE AddCerts(_, _)
AddCerts(store, pems) ==
    IF pems = <<>> THEN [store |-> store, raised |-> FALSE]
    ELSE IF ~Parseable(Head(pems)) THEN [store |-> store, raised |-> TRUE]
         ELSE AddCerts(store \cup {Head(pems)}, Tail(pems))

\* load_ca_root(): EnvironmentError is caught and the empty store returned;
\* a crypto.Error of load_certificate is not caught
LoadCaRootResult(b) ==
    IF ~b.readable THEN [store |-> {}, raised |-> FALSE]
    ELSE AddCerts({}, b.pems)

\* verify_chain_of_trust(cert_pem, trusted_cert_pems) on the store: the store it
\* leaves, whether it raised (and where), and the value returned
VerifyChainOfTrust(store, cert_pem, trusted_cert_pems) ==
    IF ~Parseable(cert_pem)
    THEN [store |-> store, raised |-> TRUE, line |-> 76, result |-> FALSE]
    ELSE LET r == AddCerts(store, trusted_cert_pems)
         IN  IF r.raised
             THEN [store |-> r.store, raised |-> TRUE, line |-> 82, result |-> FALSE]
             ELSE [store |-> r.store, raised |-> FALSE, line |-> 0,
                   result |-> Verify(r.store, cert_pem)]

GradeIdle == /\ gpc = "idle" /\ cert = None /\ verified = FALSE /\ warning = FALSE
             /\ out = <<>> /\ ret = None /\ gi = 0
SanIdle   == /\ spc = "idle" /\ exts = <<>> /\ san = ""
RunIdle   == /\ pc = "idle" /\ SHODAN_API = FALSE
             /\ bundle = [readable |-> FALSE, pems |-> <<>>]
             /\ results = <<>> /\ ROOT_STORE = None /\ idx = 0
             /\ cert_list = <<>> /\ exc = NoExc /\ calls = <<>>

Init ==
    /\ pc = "main"
    /\ SHODAN_API \in BOOLEAN
    /\ bundle \in Bundles
    /\ results = <<>>
    /\ ROOT_STORE = None
    /\ idx = 0
    /\ cert_list = <<>>
    /\ exc = NoExc
    /\ calls = <<>>
    /\ GradeIdle
    /\ SanIdle

\* lines 227-231: without SHODAN_API the script exits with status 1
Main ==
    /\ pc = "main"
    /\ pc' = IF SHODAN_API THEN "load" ELSE "exit"
    /\ UNCHANGED <<SHODAN_API, bundle, results, ROOT_STORE, idx, cert_list, exc, calls>>
    /\ UNCHANGED <<gradeVars, sanVars>>

\* line 234: ROOT_STORE=load_ca_root()
LoadCaRoot ==
    /\ pc = "load"
    /\ LET r == LoadCaRootResult(bundle)
       IN  IF r.raised
           THEN /\ pc' = "crashed"
                /\ exc' = Raised("crypto.Error", "load_ca_root", 34)
                /\ UNCHANGED ROOT_STORE
           ELSE /\ pc' = "search"
                /\ ROOT_STORE' = X509Store(r.store)
                /\ UNCHANGED exc
    /\ UNCHANGED <<SHODAN_API, bundle, results, idx, cert_list, calls>>
    /\ UNCHANGED <<gradeVars, sanVars>>

\* lines 159-173: the result set is read (cache or query), cert_list=[]
Search ==
    /\ pc = "search"
    /\ \E r \in ResultSets : results' = r
    /\ idx' = 1
    /\ cert_list' = <<>>
    /\ pc' = "loop"
    /\ UNCHANGED <<SHODAN_API, bundle, ROOT_STORE, exc, calls>>
    /\ UNCHANGED <<gradeVars, sanVars>>

\* lines 174-210: one iteration of the for loop, with extract_x509_info and
\* verify_chain_of_trust as called from it
SearchIteration ==
    /\ pc = "loop"
    /\ idx <= Len(results)
    /\ LET service == results[idx]
           chain   == service.chain
       IN  IF ~service.complete
           THEN \* a missing key at lines 193-204
                /\ pc' = "crashed"
                /\ exc' = Raised("KeyError", "search", 193)
                /\ UNCHANGED <<ROOT_STORE, idx, cert_list, calls>>
           ELSE IF chain = <<>>
           THEN \* chain[0] at line 48
                /\ pc' = "crashed"
                /\ exc' = Raised("IndexError", "extract_x509_info", 48)
                /\ UNCHANGED <<ROOT_STORE, idx, cert_list, calls>>
           ELSE IF ~Parseable(chain[1])
           THEN \* load_certificate at line 48
                /\ pc' = "crashed"
                /\ exc' = Raised("crypto.Error", "extract_x509_info", 48)
                /\ UNCHANGED <<ROOT_STORE, idx, cert_list, calls>>
           ELSE LET v == VerifyChainOfTrust(ROOT_STORE.certs, chain[1], Tail(chain))
                IN  /\ ROOT_STORE' = X509Store(v.store)
                    /\ IF v.raised
                       THEN /\ pc' = "crashed"
                            /\ exc' = Raised("crypto.Error", "verify_chain_of_trust", v.line)
                            /\ UNCHANGED <<idx, cert_list, calls>>
                       ELSE /\ calls' = Append(calls, [record |-> idx, result |-> v.result])
                            /\ cert_list' = Append(cert_list,
                                                   [record |-> idx,
                                                    altnames |-> ExtractSan(Extensions(chain[1]))])
                            /\ idx' = idx + 1
                            /\ UNCHANGED <<pc, exc>>
    /\ UNCHANGED <<SHODAN_API, bundle, results>>
    /\ UNCHANGED <<gradeVars, sanVars>>

\* the for loop of search is exhausted and search returns
SearchDone ==
    /\ pc = "loop"
    /\ idx > Len(results)
    /\ pc' = "done"
    /\ UNCHANGED <<SHODAN_API, bundle, results, ROOT_STORE, idx, cert_list, exc, calls>>
    /\ UNCHANGED <<gradeVars, sanVars>>

Next == Main \/ LoadCaRoot \/ Search \/ SearchIteration \/ SearchDone

Spec == Init /\ [][Next]_vars

(***************************************************************************)
(* Claims about the run (checked under Spec)                               *)
(***************************************************************************)
\* the trust anchors load_ca_root put into the store at start
LoadedCerts == LoadCaRootResult(bundle).store

\* C1: every verification that returned gave the result the same call gives when
\* run alone on the freshly loaded Root Store: no call observes intermediates
\* supplied to another call.
C1_NoCrossCallLeakage ==
    \A k \in 1..Len(calls) :
        LET chain == results[calls[k].record].chain
        IN  calls[k].result
              = VerifyChainOfTrust(LoadedCerts, chain[1], Tail(chain)).result

\* C2: once loaded, the Root Store holds exactly the trust anchors loaded at
\* start, whatever verify calls have run (returned or failed part-way).
C2_RootStoreImmutable ==
    ROOT_STORE.kind = "X509Store" => ROOT_STORE.certs = LoadedCerts

\* C3: chain verification never raises: no run is ended by an exception that
\* left verify_chain_of_trust.
C3_VerifyNeverRaises ==
    ~(pc = "crashed" /\ exc.func = "verify_chain_of_trust")

\* a record lacking a required field, or whose leaf certificate does not parse
BadRecord(service) ==
    \/ ~service.complete
    \/ (service.chain # <<>> /\ ~Parseable(service.chain[1]))

\* C4: a per-record failure never aborts the run: the run is never ended at a
\* record that lacks a required field or carries an unparseable leaf.
C4_BadRecordNeverAborts ==
    \A i \in 1..Len(results) :
        BadRecord(results[i]) => ~(pc = "crashed" /\ idx = i)

\* the trust-anchor source cannot be read or yields no parseable certificate
LoadMustFail ==
    \/ ~bundle.readable
    \/ \A k \in 1..Len(bundle.pems) : ~Parseable(bundle.pems[k])

\* C5: when the trust-anchor source cannot be read or yields zero parseable
\* certificates the load fails and the run ends: search is never entered and
\* no host record is verified.
C5_LoadFailureIsFatal ==
    LoadMustFail => (pc \notin {"search", "loop", "done"} /\ calls = <<>>)

(***************************************************************************)
(* grade_ssl                                                               *)
(***************************************************************************)
MinKeyBits == 2048

SigAlgs == {"sha256WithRSAEncryption", "sha1WithRSAEncryption"}

CipherNames ==
    {"ECDHE-RSA-AES128-GCM-SHA256",
     "ECDHE-ECDSA-AES128-GCM-SHA256",
     "ecdhe-rsa-aes128-gcm-sha256",
     "ADH-AES256-GCM-SHA384",
     "ADH-RSA-AES256-GCM-SHA384",
     "ECDHE-RSA-AES128-CBC-SHA",
     "ECDHE-RSA-RC4-SHA",
     "RC4-SHA",
     "DHE-RSA-AES256-SHA",
     "TLS-RSA-WITH-AES-128-GCM-SHA256"}

PubkeyBits == {MinKeyBits - 1, MinKeyBits}

\* service['ssl']['versions']: a list of protocol labels
VersionLists ==
    {<<"TLSv1.2">>,
     <<"TLSv1", "TLSv1.1", "TLSv1.2">>,
     <<"SSLv3", "TLSv1">>,
     <<"-SSLv3", "-TLSv1", "TLSv1.2", "TLSv1.3">>}

\* the keys of certinfo (lines 193-205) that grade_ssl reads
CertInfos ==
    [sig_alg : SigAlgs,
     cipher  : [name : CipherNames],
     pubkey  : [bits : PubkeyBits],
     expired : BOOLEAN,
     version : VersionLists]

\* line 116
Rule1(c) == c.sig_alg # "sha256WithRSAEncryption"

\* variant of Rule2 without the 'TLS-RSA' test
Rule2NoStaticRsa(c) ==
    \/ ~Contains(c.cipher.name, "RSA")
    \/ Contains(c.cipher.name, "ADH")
    \/ Contains(c.cipher.name, "CBC")
    \/ Contains(c.cipher.name, "RC4")

\* lines 124-128
Rule2(c) ==
    \/ ~Contains(c.cipher.name, "RSA")
    \/ Contains(c.cipher.name, "ADH")
    \/ Contains(c.cipher.name, "CBC")
    \/ Contains(c.cipher.name, "RC4")
    \/ Contains(c.cipher.name, "TLS-RSA")

\* line 133
Rule3(c) == c.pubkey.bits < MinKeyBits

\* line 137
Rule4(c) == c.expired

\* line 142
Rule5(c) == InList("SSLv3", c.version)

\* variant of Rule6 that tests each label for the substring
Rule6Substring(c) == \E i \in 1..Len(c.version) : Contains(c.version[i], "TLSv1")

\* line 146: cert['version'] is a list, so  in  compares whole labels
Rule6(c) == InList("TLSv1", c.version)

When(b, lines) == IF b THEN lines ELSE <<>>

\* the lines one iteration of the for loop prints (lines 116-148)
RuleLines(c) ==
    When(Rule1(c), <<"WARNING signature algorith weak">>)
    \o <<"cipher">>
    \o When(Rule2(c), <<"WARNING bad cipher", "CBC note">>)
    \o When(Rule3(c), <<"WARNING bits">>)
    \o When(Rule4(c), <<"WARNING EXPIRED CERT", "expires">>)
    \o When(Rule5(c), <<"WARNING SSLv3 SUPPORTED">>)
    \o When(Rule6(c), <<"WARNING TLSv1 SUPPORTED">>)

\* the value of warning at line 150
Warning(c) == Rule1(c) \/ Rule2(c) \/ Rule3(c) \/ Rule4(c) \/ Rule5(c) \/ Rule6(c)

InitGrade ==
    /\ gpc = "loop"
    /\ cert = None
    /\ verified = FALSE
    /\ warning = FALSE
    /\ out = <<>>
    /\ ret = None
    /\ gi = 0
    /\ RunIdle
    /\ SanIdle

\* lines 113-152: one iteration of the for loop over cert_list.  The element
\* comes from search, where verify_chain_of_trust was called on its chain and
\* the value it returned dropped (lines 56-59).
GradeCert ==
    /\ gpc = "loop"
    /\ gi < MaxCerts
    /\ \E c \in CertInfos, v \in BOOLEAN :
         /\ cert' = c
         /\ verified' = v
         /\ warning' = Warning(c)
         /\ out' = RuleLines(c) \o When(Warning(c), <<"REVIEW">>)
    /\ gi' = gi + 1
    /\ UNCHANGED <<gpc, ret>>
    /\ UNCHANGED <<runVars, sanVars>>

\* the for loop is exhausted: grade_ssl has no return statement
GradeReturn ==
    /\ gpc = "loop"
    /\ gpc' = "returned"
    /\ ret' = None
    /\ UNCHANGED <<cert, verified, warning, out, gi>>
    /\ UNCHANGED <<runVars, sanVars>>

NextGrade == GradeCert \/ GradeReturn

SpecGrade == InitGrade /\ [][NextGrade]_vars

(***************************************************************************)
(* Claims about grade_ssl (checked under SpecGrade)                        *)
(***************************************************************************)
\* the findings of the current record: the WARNING lines, in print order
IsFinding(line) == Len(line) >= 7 /\ SubSeq(line, 1, 7) = "WARNING"
Findings == SelectSeq(out, IsFinding)
IsChainFinding(line) == Contains(line, "chain") \/ Contains(line, "CHAIN")

Count(b) == IF b THEN 1 ELSE 0

\* how many of rules 1-6 fire on c
NFired(c) ==
    Count(Rule1(c)) + Count(Rule2(c)) + Count(Rule3(c))
    + Count(Rule4(c)) + Count(Rule5(c)) + Count(Rule6(c))

Graded == gi > 0

\* C6: grading is additive: one finding per fired rule (rules 1-6 and the chain
\* rule), and the value returned carries the score 100 - 10 per fired rule of
\* 1-6 - 20 for a chain that is not Trusted.
C6_AdditiveScore ==
    Graded =>
        /\ Len(Findings) = NFired(cert) + Count(~verified)
        /\ gpc = "returned" =>
             /\ ret.kind = "GradeResult"
             /\ ret.score = 100 - 10 * NFired(cert) - 20 * Count(~verified)

\* C7: whenever the chain outcome of a record is not Trusted, its findings end
\* with the chain-failure finding, after every finding of rules 1-6.
C7_ChainRuleLast ==
    (Graded /\ ~verified) =>
        /\ Findings # <<>>
        /\ IsChainFinding(Findings[Len(Findings)])

\* the markers of rule 2, read off the cipher name
HasRsa(name) == Contains(name, "RSA")
HasDisqualifier(name) ==
    \E m \in {"ADH", "CBC", "RC4", "TLS-RSA"} : Contains(name, m)
Rule2Fired == InList("WARNING bad cipher", out)

\* C8: rule 2 fires exactly when the cipher name lacks 'RSA' or contains one of
\* 'ADH', 'CBC', 'RC4', 'TLS-RSA'; with 'RSA' and none of the four it never
\* fires, without 'RSA' it always fires.
C8_CipherRule ==
    Graded =>
        LET name == cert.cipher.name
        IN  /\ Rule2Fired <=> (~HasRsa(name) \/ HasDisqualifier(name))
            /\ (HasRsa(name) /\ ~HasDisqualifier(name)) => ~Rule2Fired
            /\ ~HasRsa(name) => Rule2Fired

\* a record is graded whose only rule-2 marker, besides 'RSA', is 'TLS-RSA'
C8_Witness ==
    /\ Graded
    /\ Contains(cert.cipher.name, "TLS-RSA")
    /\ \A m \in {"ADH", "CBC", "RC4"} : ~Contains(cert.cipher.name, m)
    /\ Rule2Fired

Rule6Fired == InList("WARNING TLSv1 SUPPORTED", out)
SomeLabelContains(marker) ==
    \E i \in 1..Len(cert.version) : Contains(cert.version[i], marker)
SomeLabelEquals(marker) ==
    \E i \in 1..Len(cert.version) : cert.version[i] = marker

\* C9 as stated: rule 6 fires whenever some label of the supported-protocol
\* set contains 'TLSv1' as a substring.
C9_SubstringMatch ==
    (Graded /\ SomeLabelContains("TLSv1")) => Rule6Fired

\* C9 as amended: rule 6 fires exactly when some label of the
\* supported-protocol list equals 'TLSv1'; a list whose labels only contain it
\* as a proper substring ('TLSv1.2', '-TLSv1') does not fire it.
C9_ExactMatch ==
    Graded => (Rule6Fired <=> SomeLabelEquals("TLSv1"))

\* a record is graded whose labels contain 'TLSv1' only as a proper substring
C9_Witness ==
    /\ Graded
    /\ SomeLabelContains("TLSv1")
    /\ ~SomeLabelEquals("TLSv1")
    /\ ~Rule6Fired

(***************************************************************************)
(* subjectAltName extraction on bounded extension lists                    *)
(***************************************************************************)
IpEntry(v) == [type |-> "IP Address", value |-> v]

ExtChoices ==
    {BasicConstraints,
     AuthorityInfoAccess,
     SanExt(<<DnsEntry("a.com")>>),
     SanExt(<<DnsEntry("a.com"), DnsEntry("www.a.com")>>),
     SanExt(<<DnsEntry("DNS.c.net")>>),
     SanExt(<<DnsEntry("b.org"), IpEntry("10.0.0.1")>>)}

InitSan ==
    /\ spc = "start"
    /\ exts \in SeqsUpTo(ExtChoices, MaxExt)
    /\ san = ""
    /\ RunIdle
    /\ GradeIdle

\* lines 49-54 and the return of line 60
ExtractSanNames ==
    /\ spc = "start"
    /\ san' = ExtractSan(exts)
    /\ spc' = "done"
    /\ UNCHANGED exts
    /\ UNCHANGED <<runVars, gradeVars>>

NextSan == ExtractSanNames

SpecSan == InitSan /\ [][NextSan]_vars

(***************************************************************************)
(* Claims about the extraction (checked under SpecSan)                     *)
(***************************************************************************)
SanPositions == {i \in 1..Len(exts) : exts[i].short_name = "subjectAltName"}
FirstSan == exts[CHOOSE i \in SanPositions : \A j \in SanPositions : i <= j]
LastSan  == exts[CHOOSE i \in SanPositions : \A j \in SanPositions : i >= j]

\* the entries of a subjectAltName extension as the extraction reports them:
\* each entry's "type:value" text with every 'DNS' and every ':' removed
ReportedNames(ext) ==
    [i \in 1..Len(ext.entries) |->
        RemoveAll(RemoveAll(ext.entries[i].type \o ":" \o ext.entries[i].value, "DNS"), ":")]

\* C10 as stated: the names of the first-defined subjectAltName extension are
\* returned when it is declared more than once, other extensions are ignored,
\* and the result is empty when there is none.
C10_FirstDefinedWins ==
    spc = "done" =>
        IF SanPositions = {} THEN Len(san) = 0
        ELSE san = ReportedNames(FirstSan)

\* C10 as amended: the names of the last-defined subjectAltName extension are
\* returned (each entry's text with 'DNS' and ':' removed), other extensions
\* are ignored, and the result is the empty string when there is none.
C10_LastDefinedWins ==
    spc = "done" =>
        IF SanPositions = {} THEN Len(san) = 0
        ELSE san = ReportedNames(LastSan)

\* the extraction has run on a list that declares subjectAltName twice, with
\* different names, among extensions of other types
C10_Witness ==
    /\ spc = "done"
    /\ Cardinality(SanPositions) > 1
    /\ ReportedNames(FirstSan) # ReportedNames(LastSan)
    /\ SanPositions # 1..Len(exts)
    /\ san = ReportedNames(LastSan)

====
